---------------------------- MODULE Spec2Model ----------------------------
(***************************************************************************)
(* A model of user_utils: typed borrowed/owned handles over operating      *)
(* system user and group identities, and the lookups into the identity     *)
(* database.                                                               *)
(*                                                                         *)
(* The repository holds the same design in several revisions:              *)
(*   src/src/os/unix, src/src/unix          POSIX uid/gid, passwd, group   *)
(*   src/src/windows                        BorrowedPsid / OwnedPsid       *)
(*   src/src/os/windows                     Userid / UseridBuf over a PSID *)
(* The operating system's primitives (getpwuid_r, getgrgid_r, sysconf,     *)
(* LookupAccountSidW, EqualSid, ...) are the environment: each is modelled *)
(* by its documented contract, as the set of outcomes a call can have.     *)
(*                                                                         *)
(* Three specifications share the variables, one per part of the library:  *)
(*   SpecPosix   the POSIX record and name lookups                         *)
(*   SpecWin     the account-name lookup of a SID                          *)
(*   SpecId      handles: borrow, clone-to-owned, drop, compare            *)
(***************************************************************************)
EXTENDS Integers, Sequences, FiniteSets, TLC

VARIABLES
    px,         \* POSIX lookup: one call frame per thread
    errno,      \* POSIX: the thread-local errno of each thread
    scPw,       \* POSIX: what sysconf(_SC_GETPW_R_SIZE_MAX) answers on this system
    scGr,       \* POSIX: what sysconf(_SC_GETGR_R_SIZE_MAX) answers on this system
    wl,         \* account-name lookup: one call frame per thread
    lastError,  \* account-name lookup: the thread-local GetLastError() value
    mem,        \* handles: the heap, address -> bytes of the buffer living there
    owned,      \* handles: the live owned handles, slot -> handle
    last,       \* handles: the last operation and its outcome
    impl        \* handles: the implementation this build has

pxVars == <<px, errno, scPw, scGr>>
wlVars == <<wl, lastError>>
idVars == <<mem, owned, last, impl>>
vars == <<px, errno, scPw, scGr, wl, lastError, mem, owned, last, impl>>

Threads == {"t1", "t2"}

(***************************************************************************)
(* Sequence helpers.                                                       *)
(***************************************************************************)
RECURSIVE Flatten(_)
Flatten(ss) == IF ss = <<>> THEN <<>> ELSE Head(ss) \o Flatten(Tail(ss))

RECURSIVE TakeUntilNul(_)
\* the longest prefix of s that holds no 0
TakeUntilNul(s) ==
    IF s = <<>> \/ Head(s) = 0 THEN <<>> ELSE <<Head(s)>> \o TakeUntilNul(Tail(s))

(***************************************************************************)
(*                                POSIX                                    *)
(***************************************************************************)

\* uid_t and gid_t are 32 bits wide; a value is written <<high, low>> in two
\* 16-bit limbs.
Limb == 65536

U32(hi, lo) == <<hi, lo>>
U32Max == U32(Limb - 1, Limb - 1)

\* x - k on 32 bits, for a small k (wrapping)
U32Sub(x, k) ==
    IF x[2] >= k THEN U32(x[1], x[2] - k)
    ELSE U32((x[1] + Limb - 1) % Limb, x[2] + Limb - k)

\* Byte strings (ASCII codes).
s_root == <<114, 111, 111, 116>>
s_al == <<97, 108>>
s_bo == <<98, 111>>
s_users == <<117, 115, 101, 114, 115>>
s_slash == <<47>>
s_home == <<47, 104>>
s_sh == <<115, 104>>

\* The user database: uid -> entry.
PasswdDb ==
    (U32(0, 0) :> [name |-> s_root, gid |-> U32(0, 0), dir |-> s_slash, shell |-> s_sh])
    @@ (U32(0, 1000) :> [name |-> s_al, gid |-> U32(0, 100), dir |-> s_home, shell |-> s_sh])

\* The group database: gid -> entry.
GroupDb ==
    (U32(0, 0) :> [name |-> s_root, mem |-> <<>>])
    @@ (U32(0, 100) :> [name |-> s_users, mem |-> <<s_al, s_bo>>])

\* The id the tests look up to find no record: MAX - 3.
NoRecordId == U32Sub(U32Max, 3)

IdSamples == DOMAIN PasswdDb \cup {NoRecordId}

\* errno values
EIO == 5
ERANGE == 34

\* What sysconf(_SC_GETPW_R_SIZE_MAX) can answer: -1 (no limit known), a size
\* too small for some records, a size that holds every record.
SysconfAnswers == {-1, 8, 2048}

\* The fallback buffer size.
DefaultBufLen == 1024

NULL == 0

(***************************************************************************)
(* The record's buffer, Vec<c_char>: vec![0; buflen] is `len` zero bytes;  *)
(* `data` is the prefix the primitive has written (the rest is still 0),   *)
(* and `ptrs` is the member-pointer array getgrgid_r lays out in the same  *)
(* buffer.  A pointer into the buffer is the 1-based index of a byte of    *)
(* it; NULL is 0.                                                          *)
(***************************************************************************)
ZeroedBuf(buflen) == [len |-> buflen, data |-> <<>>, ptrs |-> <<>>]

ByteAt(buf, i) == IF i <= Len(buf.data) THEN buf.data[i] ELSE 0

RECURSIVE CStrFrom(_, _)
\* CStr::from_ptr(p).to_bytes(): the bytes from p to the first NUL
CStrFrom(buf, p) ==
    IF p > buf.len \/ ByteAt(buf, p) = 0 THEN <<>>
    ELSE <<ByteAt(buf, p)>> \o CStrFrom(buf, p + 1)

\* mem::zeroed() records
ZeroedPasswd == [pw_name |-> NULL, pw_uid |-> U32(0, 0), pw_gid |-> U32(0, 0),
                 pw_dir |-> NULL, pw_shell |-> NULL]
ZeroedGroup == [gr_name |-> NULL, gr_gid |-> U32(0, 0), gr_mem |-> NULL]

\* strings laid out one after the other, each NUL-terminated
Pack(strs) == Flatten([i \in 1..Len(strs) |-> strs[i] \o <<0>>])

RECURSIVE OffsetOf(_, _)
\* where the i-th string of Pack(strs) starts
OffsetOf(strs, i) == IF i = 1 THEN 1 ELSE OffsetOf(strs, i - 1) + Len(strs[i - 1]) + 1

PtrSize == 8

(***************************************************************************)
(* getpwuid_r(uid, &pwd, buf, buflen, &result): the outcomes of one call.  *)
(* It returns 0 and sets result to &pwd when the entry exists and fits,    *)
(* returns 0 and a null result when there is no entry, returns ERANGE when *)
(* the entry does not fit buflen, and can fail with an I/O error whatever  *)
(* the uid.  `found` says result = &pwd.                                   *)
(***************************************************************************)
GetpwuidR(uid, buflen) ==
    LET e == PasswdDb[uid]
        strs == <<e.name, e.dir, e.shell>>
        okOut == [rc |-> 0, found |-> TRUE,
                  raw |-> [pw_name |-> OffsetOf(strs, 1), pw_uid |-> uid, pw_gid |-> e.gid,
                           pw_dir |-> OffsetOf(strs, 2), pw_shell |-> OffsetOf(strs, 3)],
                  data |-> Pack(strs), ptrs |-> <<>>]
        failOut(code) == [rc |-> code, found |-> FALSE, raw |-> ZeroedPasswd,
                          data |-> <<>>, ptrs |-> <<>>]
    IN  {failOut(EIO)} \cup
        (IF uid \in DOMAIN PasswdDb
         THEN IF Len(Pack(strs)) <= buflen THEN {okOut} ELSE {failOut(ERANGE)}
         ELSE {failOut(0)})

\* getgrgid_r, likewise; the member-pointer array follows the strings and ends
\* with a null pointer.  For a group without members the C library may also
\* leave gr_mem null.
GetgrgidR(gid, buflen) ==
    LET e == GroupDb[gid]
        strs == <<e.name>> \o e.mem
        n == Len(e.mem)
        okOut == [rc |-> 0, found |-> TRUE,
                  raw |-> [gr_name |-> OffsetOf(strs, 1), gr_gid |-> gid, gr_mem |-> 1],
                  data |-> Pack(strs),
                  ptrs |-> [i \in 1..(n + 1) |-> IF i <= n THEN OffsetOf(strs, i + 1) ELSE NULL]]
        okNoArray == [rc |-> 0, found |-> TRUE,
                      raw |-> [gr_name |-> OffsetOf(strs, 1), gr_gid |-> gid, gr_mem |-> NULL],
                      data |-> Pack(strs), ptrs |-> <<>>]
        failOut(code) == [rc |-> code, found |-> FALSE, raw |-> ZeroedGroup,
                          data |-> <<>>, ptrs |-> <<>>]
    IN  {failOut(EIO)} \cup
        (IF gid \in DOMAIN GroupDb
         THEN IF Len(Pack(strs)) + (n + 1) * PtrSize <= buflen
              THEN {okOut} \cup (IF n = 0 THEN {okNoArray} ELSE {})
              ELSE {failOut(ERANGE)}
         ELSE {failOut(0)})


(***************************************************************************)
(* Results.  Error is NoRecord | Io(io::Error); a lookup returns Ok(value) *)
(* or Err(error).  `code` is the OS error number an Io error carries.      *)
(***************************************************************************)
Ok(v) == [tag |-> "Ok", val |-> v, code |-> 0]
NoRecord == [tag |-> "NoRecord", val |-> <<>>, code |-> 0]
Io(c) == [tag |-> "Io", val |-> <<>>, code |-> c]
NoResult == [tag |-> "none", val |-> <<>>, code |-> 0]

\* Error::last_os_error(): io::Error::last_os_error() reads the thread's errno
last_os_error(t) == Io(errno[t])

\* The lookup functions, and which of them return the name only.
UserFns == {"lookup_passwd", "username"}
GroupFns == {"lookup_group", "groupname"}
NameFns == {"username", "groupname"}
Fns == UserFns \cup GroupFns

\* Passwd / Group accessors
Passwd_name_ReadsDir(p) == CStrFrom(p.buf, p.raw.pw_dir)
Passwd_name(p) == CStrFrom(p.buf, p.raw.pw_name)
Passwd_uid(p) == p.raw.pw_uid
Passwd_gid(p) == p.raw.pw_gid
Passwd_dir(p) == CStrFrom(p.buf, p.raw.pw_dir)
Passwd_shell(p) == CStrFrom(p.buf, p.raw.pw_shell)
Group_name(g) == CStrFrom(g.buf, g.raw.gr_name)
Group_gid(g) == g.raw.gr_gid

\* what the loop of Group::mem has done when it ends at a null: the names
\* pushed, the slots of the array read, the name pointers dereferenced
MemEnd(slots) == [names |-> <<>>, slots |-> slots, derefs |-> <<>>]

RECURSIVE MemFrom_ReadsPastNull(_, _)
\* Mutant of MemFrom: the slot after the null one is looked at as well.
MemFrom_ReadsPastNull(g, i) ==
    LET username_ptr == IF g.raw.gr_mem = NULL THEN NULL ELSE g.raw.gr_mem + i
    IN  IF username_ptr = NULL THEN MemEnd(<<>>)
        ELSE IF g.buf.ptrs[username_ptr] = NULL THEN MemEnd(<<i, i + 1>>)
        ELSE LET rest == MemFrom_ReadsPastNull(g, i + 1)
             IN  [names |-> <<CStrFrom(g.buf, g.buf.ptrs[username_ptr])>> \o rest.names,
                  slots |-> <<i>> \o rest.slots,
                  derefs |-> <<g.buf.ptrs[username_ptr]>> \o rest.derefs]

RECURSIVE MemFrom(_, _)
\* the loop of Group::mem from index i on: username_ptr = gr_mem.offset(i) is
\* the i-th slot of the array (null when gr_mem is, and then no slot is
\* read); a null username_ptr or a null pointer in the slot ends the loop,
\* anything else is dereferenced and pushed as the bytes up to the NUL.
MemFrom(g, i) ==
    LET username_ptr == IF g.raw.gr_mem = NULL THEN NULL ELSE g.raw.gr_mem + i
    IN  IF username_ptr = NULL THEN MemEnd(<<>>)
        ELSE IF g.buf.ptrs[username_ptr] = NULL THEN MemEnd(<<i>>)
        ELSE LET rest == MemFrom(g, i + 1)
             IN  [names |-> <<CStrFrom(g.buf, g.buf.ptrs[username_ptr])>> \o rest.names,
                  slots |-> <<i>> \o rest.slots,
                  derefs |-> <<g.buf.ptrs[username_ptr]>> \o rest.derefs]

\* Mutant of Group_mem: the loop left after the first push.
Group_mem_OnlyFirst(g) ==
    IF MemFrom(g, 0).names = <<>> THEN <<>> ELSE <<Head(MemFrom(g, 0).names)>>

\* Group::mem(): let mut i = 0; loop { ... }
Group_mem(g) == MemFrom(g, 0).names

\* buflen: the sysconf answer, or the default when it is -1.  The group lookup
\* asks for _SC_GETPW_R_SIZE_MAX as well.
BufLenFor(fn) == IF scPw = -1 THEN DefaultBufLen ELSE scPw

\* Mutants of LookupOutcome: the success test turned around (nonzero taken
\* for success, as the Win32 calls have it), and the out-pointer not looked at.
LookupOutcome_NonzeroIsSuccess(t, return_code, result, recAddr, record) ==
    IF return_code # 0
    THEN IF result = recAddr THEN Ok(record) ELSE NoRecord
    ELSE last_os_error(t)

LookupOutcome_IgnoresResult(t, return_code, result, recAddr, record) ==
    IF return_code = 0 THEN Ok(record) ELSE last_os_error(t)

\* The tail of lookup_by_uid / get_gr_by_gid: the primitive's return code and
\* out-pointer decide the outcome.  `recAddr` is the address of the record
\* handed to the primitive.
LookupOutcome(t, return_code, result, recAddr, record) ==
    IF return_code = 0
    THEN IF result = recAddr THEN Ok(record) ELSE NoRecord
    ELSE last_os_error(t)

\* Mutant of NameOf: every error reported as NoRecord.
NameOf_ErrorsAreNoRecord(fn, inner) ==
    IF inner.tag = "Ok"
    THEN Ok(IF fn \in UserFns THEN CStrFrom(inner.val.buf, inner.val.raw.pw_name)
            ELSE CStrFrom(inner.val.buf, inner.val.raw.gr_name))
    ELSE NoRecord

\* Userid::name / get_name_by_gid: the `?` hands an error on unchanged, and
\* the name is copied out of the record.
NameOf(fn, inner) ==
    IF inner.tag = "Ok"
    THEN Ok(IF fn \in UserFns THEN CStrFrom(inner.val.buf, inner.val.raw.pw_name)
            ELSE CStrFrom(inner.val.buf, inner.val.raw.gr_name))
    ELSE inner

IdleFrame ==
    [pc |-> "idle", fn |-> "none", id |-> U32(0, 0), buflen |-> 0, passed |-> 0,
     raw |-> <<>>, buf |-> ZeroedBuf(0), result |-> "null", return_code |-> 0,
     inner |-> NoResult, ret |-> NoResult, calls |-> 0, lookups |-> 0,
     members |-> <<>>, slots |-> <<>>, derefs |-> <<>>, allocated |-> FALSE]

InitPx ==
    /\ px = [t \in Threads |-> IdleFrame]
    /\ errno = [t \in Threads |-> 0]
    /\ scPw \in SysconfAnswers
    /\ scGr \in {-1, 4096}

\* A thread calls a lookup function on a handle for `id`: the head of
\* lookup_by_uid / get_gr_by_gid, up to the call of the primitive.
PxBegin(t, fn, id) ==
    /\ px[t].pc = "idle"
    /\ px' = [px EXCEPT ![t] =
                [IdleFrame EXCEPT !.pc = "call", !.fn = fn, !.id = id,
                    !.buflen = BufLenFor(fn),
                    !.raw = IF fn \in UserFns THEN ZeroedPasswd ELSE ZeroedGroup,
                    !.buf = ZeroedBuf(BufLenFor(fn)), !.allocated = TRUE,
                    !.lookups = 1]]
    /\ UNCHANGED <<errno, scPw, scGr, wlVars, idVars>>

\* Mutant of PxCall: the primitive answers in one static record and buffer
\* (getpwuid for getpwuid_r), which every lookup in flight then reads.
PxCall_StaticRecord(t) ==
    /\ px[t].pc = "call"
    /\ LET f == px[t]
           passed == f.buflen
       IN \E out \in (IF f.fn \in UserFns THEN GetpwuidR(f.id, passed)
                      ELSE GetgrgidR(f.id, passed)) :
          \E e \in (IF out.rc = 0 THEN {errno[t]} ELSE {errno[t], out.rc}) :
             /\ px' = [u \in Threads |->
                         IF u = t
                         THEN [f EXCEPT !.pc = "ret", !.passed = passed,
                                  !.raw = out.raw,
                                  !.buf = [len |-> f.buf.len, data |-> out.data,
                                           ptrs |-> out.ptrs],
                                  !.result = IF out.found THEN t ELSE "null",
                                  !.return_code = out.rc,
                                  !.calls = f.calls + 1]
                         ELSE IF px[u].pc = "ret"
                         THEN [px[u] EXCEPT !.raw = out.raw,
                                  !.buf = [len |-> px[u].buf.len, data |-> out.data,
                                           ptrs |-> out.ptrs]]
                         ELSE px[u]]
             /\ errno' = [errno EXCEPT ![t] = e]
    /\ UNCHANGED <<scPw, scGr, wlVars, idVars>>

\* The call of getpwuid_r / getgrgid_r.  The primitive returns its error
\* number; whether it also leaves it in errno is up to the C library.
PxCall(t) ==
    /\ px[t].pc = "call"
    /\ LET f == px[t]
           passed == f.buflen
       IN \E out \in (IF f.fn \in UserFns THEN GetpwuidR(f.id, passed)
                      ELSE GetgrgidR(f.id, passed)) :
          \E e \in (IF out.rc = 0 THEN {errno[t]} ELSE {errno[t], out.rc}) :
             /\ px' = [px EXCEPT ![t] =
                         [f EXCEPT !.pc = "ret", !.passed = passed,
                             !.raw = out.raw,
                             !.buf = [len |-> f.buf.len, data |-> out.data, ptrs |-> out.ptrs],
                             !.result = IF out.found THEN t ELSE "null",
                             !.return_code = out.rc,
                             !.calls = f.calls + 1]]
             /\ errno' = [errno EXCEPT ![t] = e]
    /\ UNCHANGED <<scPw, scGr, wlVars, idVars>>

\* Mutant of BufferSurvives: the buffer is freed when the lookup returns,
\* the record or not.
BufferSurvives_FreedAtReturn(fn, ret) == FALSE

\* Whether the Vec allocated by the lookup outlives the call: Ok(passwd) moves
\* the record and its buffer to the caller; on Err, and in the name functions
\* (which copy the name out), the record is a local that is dropped.
BufferSurvives(fn, ret) == ret.tag = "Ok" /\ fn \notin NameFns

\* Mutant of PxReturn: on ERANGE the primitive is called again on the same
\* buffer.
PxReturn_LoopsOnErange(t) ==
    /\ px[t].pc = "ret"
    /\ LET f == px[t]
           inner == LookupOutcome(t, f.return_code, f.result, t, [raw |-> f.raw, buf |-> f.buf])
       IN px' = [px EXCEPT ![t] =
                   IF f.return_code = ERANGE
                   THEN [f EXCEPT !.pc = "call", !.calls = 0]
                   ELSE [f EXCEPT !.pc = "done", !.inner = inner,
                            !.ret = IF f.fn \in NameFns THEN NameOf(f.fn, inner) ELSE inner]]
    /\ UNCHANGED <<errno, scPw, scGr, wlVars, idVars>>

\* Mutant of PxReturn: on ERANGE the buffer is doubled and the primitive
\* called again.
PxReturn_RetriesOnErange(t) ==
    /\ px[t].pc = "ret"
    /\ LET f == px[t]
           inner == LookupOutcome(t, f.return_code, f.result, t, [raw |-> f.raw, buf |-> f.buf])
       IN px' = [px EXCEPT ![t] =
                   IF f.return_code = ERANGE
                   THEN [f EXCEPT !.pc = "call", !.buflen = 2 * f.buflen,
                            !.buf = ZeroedBuf(2 * f.buflen)]
                   ELSE [f EXCEPT !.pc = "done", !.inner = inner,
                            !.ret = IF f.fn \in NameFns THEN NameOf(f.fn, inner) ELSE inner]]
    /\ UNCHANGED <<errno, scPw, scGr, wlVars, idVars>>

\* The lookup returns; a name function then takes the name out of the record.
PxReturn(t) ==
    /\ px[t].pc = "ret"
    /\ LET f == px[t]
           inner == LookupOutcome(t, f.return_code, f.result, t, [raw |-> f.raw, buf |-> f.buf])
           ret == IF f.fn \in NameFns THEN NameOf(f.fn, inner) ELSE inner
       IN px' = [px EXCEPT ![t] =
                   [f EXCEPT !.pc = "done", !.inner = inner, !.ret = ret,
                       !.allocated = BufferSurvives(f.fn, ret)]]
    /\ UNCHANGED <<errno, scPw, scGr, wlVars, idVars>>

\* The caller of lookup_group asks the record it got for its members.
PxGroupMem(t) ==
    /\ px[t].pc = "done"
    /\ px[t].fn = "lookup_group"
    /\ px[t].ret.tag = "Ok"
    /\ px' = [px EXCEPT ![t] =
                [px[t] EXCEPT !.pc = "read", !.members = Group_mem(px[t].ret.val),
                              !.slots = MemFrom(px[t].ret.val, 0).slots,
                              !.derefs = MemFrom(px[t].ret.val, 0).derefs]]
    /\ UNCHANGED <<errno, scPw, scGr, wlVars, idVars>>

\* The caller drops the result: the record and its buffer are freed.
PxDrop(t) ==
    /\ px[t].pc \in {"done", "read"}
    /\ px' = [px EXCEPT ![t] = IdleFrame]
    /\ UNCHANGED <<errno, scPw, scGr, wlVars, idVars>>


\* The ids a lookup function is tried on: every entry of its database, and the
\* id with no record.
IdsFor(fn) == (IF fn \in UserFns THEN DOMAIN PasswdDb ELSE DOMAIN GroupDb) \cup {NoRecordId}

NextPosix ==
    \/ \E t \in Threads, fn \in Fns : \E id \in IdsFor(fn) : PxBegin(t, fn, id)
    \/ \E t \in Threads : PxCall(t)
    \/ \E t \in Threads : PxReturn(t)
    \/ \E t \in Threads : PxGroupMem(t)
    \/ \E t \in Threads : PxDrop(t)


(***************************************************************************)
(*                     Security identifiers in memory                      *)
(***************************************************************************)

\* A PSID is a pointer, 8 bytes, written little-endian as the bytes it is
\* made of: two pointers are equal when their bytes are.  The heap's buffers
\* live at 16-byte aligned addresses below 256.
Ptr(n) == <<n, 0, 0, 0, 0, 0, 0, 0>>
NullPsid == Ptr(0)
HeapAddrs == {16, 32, 48, 64, 80, 96, 112}
PoolAddrs == {128, 144}
BadAddrs == {160}
AllAddrs == HeapAddrs \cup PoolAddrs \cup BadAddrs

IsAddr(p) == p \in {Ptr(n) : n \in AllAddrs}
AddrOf(p) == p[1]

\* A SID: Revision, SubAuthorityCount, IdentifierAuthority (6 bytes, big
\* endian), SubAuthority (4 bytes each, little endian).
SidBytes(authority, subs) ==
    <<1, Len(subs), 0, 0, 0, 0, 0, authority>>
    \o Flatten([i \in 1..Len(subs) |-> <<subs[i] % 256, subs[i] \div 256, 0, 0>>])

WorldSid == SidBytes(1, <<0>>)                \* S-1-1-0, Everyone
SystemSid == SidBytes(5, <<18>>)              \* S-1-5-18
AdminsSid == SidBytes(5, <<32, 544>>)         \* S-1-5-32-544
UnmappedSid == SidBytes(5, <<99>>)            \* no account has it
LongNameSid == SidBytes(5, <<21, 7>>)         \* an account with a 32-unit name
LongDomainSid == SidBytes(5, <<21, 8>>)       \* an account in a 32-unit domain

\* bytes that are no SID: Revision 0
InvalidSid == <<0, 1, 0, 0, 0, 0, 0, 1, 0, 0, 0, 0>>

\* The SIDs the caller holds, each in a buffer of its own (and at 160 a
\* buffer that holds no valid SID).  The buffer at 32
\* is larger than the SID in it, as a SECURITY_MAX_SID_SIZE buffer is: the same
\* identity as at 16, in other bytes at another address.
CallerHeap ==
    [a \in AllAddrs |->
        CASE a = 16 -> WorldSid
          [] a = 32 -> WorldSid \o <<170, 170, 170, 170>>
          [] a = 48 -> SystemSid
          [] a = 64 -> AdminsSid
          [] a = 80 -> UnmappedSid
          [] a = 96 -> LongNameSid
          [] a = 112 -> LongDomainSid
          [] a = 160 -> InvalidSid
          [] OTHER -> <<>>]

\* GetLengthSid of a valid SID: 8 + 4 * SubAuthorityCount
SidLength(b) == 8 + 4 * b[2]

\* the SID a buffer holds: its first SidLength bytes
SidIn(b) == SubSeq(b, 1, SidLength(b))

(***************************************************************************)
(*                        The account-name lookup                          *)
(***************************************************************************)

\* UTF-16 code units; 0 is NUL.
Units(u, n) == [i \in 1..n |-> u]

StackBufLen == 32

\* The accounts the system knows: SID -> name and domain.
AccountDb ==
    (WorldSid :> [name |-> <<69, 118>>, domain |-> <<>>])
    @@ (SystemSid :> [name |-> <<83, 89>>, domain |-> <<78, 84>>])
    @@ (AdminsSid :> [name |-> <<65, 100>>, domain |-> <<66, 73>>])
    @@ (LongNameSid :> [name |-> Units(120, StackBufLen), domain |-> <<68>>])
    @@ (LongDomainSid :> [name |-> <<117>>, domain |-> Units(100, StackBufLen)])

ERROR_INSUFFICIENT_BUFFER == 122
ERROR_NONE_MAPPED == 1332
ERROR_TRUSTED_RELATIONSHIP_FAILURE == 1789

\* a buffer after a NUL-terminated string has been written to its start
WriteWide(buf, str) == str \o <<0>> \o SubSeq(buf, Len(str) + 2, Len(buf))

(***************************************************************************)
(* LookupAccountSidW(NULL, psid, name, &cchName, domain, &cchDomain, &use): *)
(* the outcomes of one call on the SID `sid`.  It succeeds (nonzero) when  *)
(* the SID has an account and both strings fit, and sets the lengths to    *)
(* the strings' lengths; it fails with ERROR_NONE_MAPPED when the SID has  *)
(* no account; it fails with ERROR_INSUFFICIENT_BUFFER when a string does  *)
(* not fit, and sets both lengths to the sizes required, NUL included      *)
(* (what it leaves in the buffers then is not specified: nothing, or the   *)
(* strings that fit); and it can fail for a reason of the moment, whatever *)
(* the SID, leaving lengths and buffers alone.                             *)
(***************************************************************************)
LookupAccountSidW(sid, name, cchName, domain, cchDomain, err) ==
    LET a == AccountDb[sid]
        out(rc, e, n, cn, d, cd) ==
            [rc |-> rc, err |-> e, name |-> n, cchName |-> cn, domain |-> d, cchDomain |-> cd]
        nameFits == Len(a.name) + 1 <= cchName
        domainFits == Len(a.domain) + 1 <= cchDomain
    IN  {out(0, ERROR_TRUSTED_RELATIONSHIP_FAILURE, name, cchName, domain, cchDomain)} \cup
        (IF sid \notin DOMAIN AccountDb
         THEN {out(0, ERROR_NONE_MAPPED, name, cchName, domain, cchDomain)}
         ELSE IF nameFits /\ domainFits
         THEN {out(1, err, WriteWide(name, a.name), Len(a.name),
                   WriteWide(domain, a.domain), Len(a.domain))}
         ELSE {out(0, ERROR_INSUFFICIENT_BUFFER, name, Len(a.name) + 1,
                   domain, Len(a.domain) + 1),
               out(0, ERROR_INSUFFICIENT_BUFFER,
                   IF nameFits THEN WriteWide(name, a.name) ELSE name, Len(a.name) + 1,
                   IF domainFits THEN WriteWide(domain, a.domain) ELSE domain,
                   Len(a.domain) + 1)})

\* Mutant of utf16_until_null_to_osstring: the NULs left out, the units after
\* them kept.
utf16_until_null_to_osstring_SkipsNuls(utf16_buf) ==
    SelectSeq(utf16_buf, LAMBDA c : c # 0)

\* utf16_until_null_to_osstring: the units before the first NUL.  An OsString
\* is written as the UTF-16 units it encodes.
utf16_until_null_to_osstring(utf16_buf) == TakeUntilNul(utf16_buf)

Backslash == 92

\* accountname_from_wide_domain_and_name: domain, a backslash, name
accountname_from_wide_domain_and_name(wide_domain_buf, wide_name_buf) ==
    utf16_until_null_to_osstring(wide_domain_buf) \o <<Backslash>>
    \o utf16_until_null_to_osstring(wide_name_buf)

IdleWl ==
    [pc |-> "idle", psid |-> NullPsid,
     wide_name_length |-> 0, wide_domain_length |-> 0,
     wide_name_buf |-> <<>>, wide_domain_buf |-> <<>>,
     wide_name |-> <<>>, wide_domain |-> <<>>,
     rc1 |-> 0, err1 |-> 0, len1 |-> <<0, 0>>, rc2 |-> 0, calls |-> 0, ret |-> NoResult]

InitWl ==
    /\ wl = [t \in Threads |-> IdleWl]
    /\ lastError = [t \in Threads |-> 0]

\* lookup_account_sid(psid) starts: the lengths and the two stack buffers.
WlBegin(t, psid) ==
    /\ wl[t].pc = "idle"
    /\ wl' = [wl EXCEPT ![t] =
                [IdleWl EXCEPT !.pc = "call1", !.psid = psid,
                    !.wide_name_length = StackBufLen, !.wide_domain_length = StackBufLen,
                    !.wide_name_buf = Units(0, StackBufLen),
                    !.wide_domain_buf = Units(0, StackBufLen)]]
    /\ UNCHANGED <<lastError, pxVars, idVars>>

\* The first call of the primitive, on the stack buffers.
WlCall1(t) ==
    /\ wl[t].pc = "call1"
    /\ LET f == wl[t] IN
       \E o \in LookupAccountSidW(SidIn(mem[AddrOf(f.psid)]), f.wide_name_buf,
                                  f.wide_name_length, f.wide_domain_buf,
                                  f.wide_domain_length, lastError[t]) :
          /\ wl' = [wl EXCEPT ![t] =
                      [f EXCEPT !.pc = "after1", !.rc1 = o.rc, !.err1 = o.err,
                          !.wide_name_buf = o.name, !.wide_name_length = o.cchName,
                          !.wide_domain_buf = o.domain, !.wide_domain_length = o.cchDomain,
                          !.len1 = <<o.cchName, o.cchDomain>>,
                          !.calls = f.calls + 1]]
          /\ lastError' = [lastError EXCEPT ![t] = o.err]
    /\ UNCHANGED <<pxVars, idVars>>

\* Mutant of AfterFirstCall: ERROR_NONE_MAPPED not told from the other errors.
AfterFirstCall_AlwaysRetries(return_code, last_error) ==
    IF return_code # 0 THEN "ok" ELSE "retry"

\* What the first call's result leads to: the name, NoRecord, or the retry.
AfterFirstCall(return_code, last_error) ==
    IF return_code # 0 THEN "ok"
    ELSE IF last_error = ERROR_NONE_MAPPED THEN "norecord"
    ELSE "retry"

\* Mutant of HeapBuf: a heap buffer no larger than the stack buffer.
HeapBuf_StackSized(length) == Units(0, StackBufLen)

\* vec![0; length]
HeapBuf(length) == Units(0, length)

\* The branch after the first call; the retry allocates the two heap buffers
\* with the lengths the first call left.
WlAfter1(t) ==
    /\ wl[t].pc = "after1"
    /\ LET f == wl[t]
           next == AfterFirstCall(f.rc1, lastError[t])
       IN wl' = [wl EXCEPT ![t] =
                   CASE next = "ok" ->
                          [f EXCEPT !.pc = "done",
                              !.ret = Ok(accountname_from_wide_domain_and_name(
                                            f.wide_domain_buf, f.wide_name_buf))]
                     [] next = "norecord" -> [f EXCEPT !.pc = "done", !.ret = NoRecord]
                     [] OTHER ->
                          [f EXCEPT !.pc = "call2",
                              !.wide_name = HeapBuf(f.wide_name_length),
                              !.wide_domain = HeapBuf(f.wide_domain_length)]]
    /\ UNCHANGED <<lastError, pxVars, idVars>>

\* The retry: the second call of the primitive, on the heap buffers.
WlCall2(t) ==
    /\ wl[t].pc = "call2"
    /\ LET f == wl[t] IN
       \E o \in LookupAccountSidW(SidIn(mem[AddrOf(f.psid)]), f.wide_name,
                                  f.wide_name_length, f.wide_domain,
                                  f.wide_domain_length, lastError[t]) :
          /\ wl' = [wl EXCEPT ![t] =
                      [f EXCEPT !.pc = "after2", !.rc2 = o.rc,
                          !.wide_name = o.name, !.wide_name_length = o.cchName,
                          !.wide_domain = o.domain, !.wide_domain_length = o.cchDomain,
                          !.calls = f.calls + 1]]
          /\ lastError' = [lastError EXCEPT ![t] = o.err]
    /\ UNCHANGED <<pxVars, idVars>>

\* Mutant of AfterRetry: a failed retry reported as an I/O error.
AfterRetry_FailureIsIo(t, return_code, wide_domain_buf, wide_name_buf) ==
    IF return_code # 0
    THEN Ok(accountname_from_wide_domain_and_name(wide_domain_buf, wide_name_buf))
    ELSE Io(lastError[t])

\* What the retry's result leads to.  The name is built from wide_domain_buf
\* and wide_name_buf, the stack buffers of the first call.
AfterRetry(t, return_code, wide_domain_buf, wide_name_buf) ==
    IF return_code # 0
    THEN Ok(accountname_from_wide_domain_and_name(wide_domain_buf, wide_name_buf))
    ELSE NoRecord

WlAfter2(t) ==
    /\ wl[t].pc = "after2"
    /\ LET f == wl[t] IN
       wl' = [wl EXCEPT ![t] =
                [f EXCEPT !.pc = "done",
                    !.ret = AfterRetry(t, f.rc2, f.wide_domain_buf, f.wide_name_buf)]]
    /\ UNCHANGED <<lastError, pxVars, idVars>>

\* The caller drops the result.
WlDrop(t) ==
    /\ wl[t].pc = "done"
    /\ wl' = [wl EXCEPT ![t] = IdleWl]
    /\ UNCHANGED <<lastError, pxVars, idVars>>

\* The SIDs a lookup is tried on: the caller's.
LookupPsids == {Ptr(n) : n \in HeapAddrs}

NextWin ==
    \/ \E t \in Threads, p \in LookupPsids : WlBegin(t, p)
    \/ \E t \in Threads : WlCall1(t)
    \/ \E t \in Threads : WlAfter1(t)
    \/ \E t \in Threads : WlCall2(t)
    \/ \E t \in Threads : WlAfter2(t)
    \/ \E t \in Threads : WlDrop(t)

(***************************************************************************)
(*                      Borrowed and owned handles                         *)
(***************************************************************************)

\* The three implementations of the handles: the POSIX one (a uid or gid by
\* value), and the two of the security-descriptor platform, "win"
\* (BorrowedPsid, OwnedPsid) and "oswin" (Userid, UseridBuf).
Impls == {"unix", "win", "oswin"}
WinImpls == {"win", "oswin"}

\* A raw identity value is a uid or gid, or a PSID to one of the caller's
\* SIDs: Everyone in its two buffers, and Local System.
HandleAddrs == {16, 32, 48}
RawValues == IF impl = "unix" THEN IdSamples ELSE {Ptr(n) : n \in HandleAddrs}

MaxOwned == 2
Slots == 1..MaxOwned

\* An owned handle holds its uid (POSIX) or the pointer to the buffer of its
\* Vec<u8>; src and how tell what it was made from.
\* bytes is what its buffer held when it was made.
NoOwned == [live |-> FALSE, val |-> <<>>, src |-> <<>>, how |-> "none", bytes |-> <<>>]

\* The last operation: what it was (op, form, who), its operands (l, r: raw
\* values; ls, rs: slots), its outcome (out, text, code), and what it asked of
\* the operating system (n calls, on the pointer arg, answered prim).
NoOp ==
    [op |-> "none", form |-> "none", out |-> "none",
     l |-> <<>>, r |-> <<>>, ls |-> 0, rs |-> 0,
     who |-> "none", n |-> 0, arg |-> <<>>, prim |-> "none",
     text |-> <<>>, code |-> 0, len |-> 0, fwd |-> <<>>, bwd |-> <<>>]

InitId ==
    /\ mem = CallerHeap
    /\ owned = [s \in Slots |-> NoOwned]
    /\ last = NoOp
    /\ impl \in Impls

\* IsValidSid of the bytes at an address
IsValidSidBytes(b) == Len(b) >= 8 /\ b[1] = 1 /\ b[2] <= 15 /\ Len(b) >= SidLength(b)

\* p points to a buffer that holds a valid SID
PointsToSid(p) == IsAddr(p) /\ IsValidSidBytes(mem[AddrOf(p)])

Bool(b) == IF b THEN "true" ELSE "false"

\* EqualSid(p1, p2): whether the two SIDs are equal; "If either SID structure
\* is not valid, the return value is undefined", and a pointer to no SID at
\* all can also end the process.
EqualSid(p1, p2) ==
    IF PointsToSid(p1) /\ PointsToSid(p2)
    THEN {Bool(SidIn(mem[AddrOf(p1)]) = SidIn(mem[AddrOf(p2)]))}
    ELSE {"true", "false", "fault"}

ERROR_NOT_ENOUGH_MEMORY == 8
ERROR_INVALID_SID == 1337

\* GetLengthSid(p): the length of the valid SID at p, 8 + 4 * SubAuthorityCount;
\* "If the SID structure is not valid, the return value is undefined", and a
\* pointer to no SID at all can also end the process.
GetLengthSid(p) ==
    IF PointsToSid(p)
    THEN {[out |-> "Ok", len |-> SidLength(mem[AddrOf(p)])]}
    ELSE {[out |-> "fault", len |-> 0], [out |-> "Ok", len |-> 12]}

\* CopySid(len, buf, p) into a zeroed buffer buf of len bytes: nonzero and the
\* SID copied when p is a valid SID no longer than len (or zero, for a reason
\* of the moment), zero when len is too small; undefined when p points to no
\* SID (the process ends, or zero is returned, or nonzero with the buffer as
\* it was or with some SID in it).
CopySid(len, p) ==
    LET sid == SidIn(mem[AddrOf(p)])
        out(rc, e, bytes) == [out |-> "Ok", rc |-> rc, err |-> e, bytes |-> bytes]
    IN  IF PointsToSid(p)
        THEN IF Len(sid) <= len
             THEN {out(1, 0, sid \o Units(0, len - Len(sid))),
                   out(0, ERROR_NOT_ENOUGH_MEMORY, Units(0, len))}
             ELSE {out(0, ERROR_INSUFFICIENT_BUFFER, Units(0, len))}
        ELSE {[out |-> "fault", rc |-> 0, err |-> 0, bytes |-> <<>>],
              out(0, ERROR_INVALID_SID, Units(0, len))}
             \cup {out(1, 0, b) :
                     b \in {Units(0, len)}
                           \cup {x \in {SidIn(CallerHeap[a]) : a \in HandleAddrs} :
                                    Len(x) = len}}

\* vec![0; sid_length as usize]
CloneBufLen(sid_length) == sid_length

\* if return_code != 0 { Ok(UseridBuf { buf }) } else { Err(io::Error::last_os_error()) }
CloneResult(return_code, last_error) ==
    IF return_code # 0 THEN [out |-> "Ok", code |-> 0]
    ELSE [out |-> "Err", code |-> last_error]

\* copy_sid(psid), the body of try_clone_to_owned: GetLengthSid(psid),
\* vec![0; sid_length], CopySid(sid_length, buf, psid), and the result.  len is
\* the length GetLengthSid reported, bytes the buffer, arg the pointer the two
\* primitives were given.
copy_sid(psid) ==
    LET res(out, code, len, bytes) ==
            [out |-> out, code |-> code, len |-> len, bytes |-> bytes, arg |-> psid]
    IN  UNION {
          IF g.out = "fault" THEN {res("fault", 0, 0, <<>>)}
          ELSE {IF c.out = "fault" THEN res("fault", 0, g.len, <<>>)
                ELSE res(CloneResult(c.rc, c.err).out, CloneResult(c.rc, c.err).code,
                         g.len, c.bytes) :
                  c \in CopySid(CloneBufLen(g.len), psid)} :
          g \in GetLengthSid(psid)}

\* from_raw_psid_unchecked(psid), then the read of the handle's raw_psid.
\* BorrowedPsid { raw_psid: psid } holds the pointer.  &*(psid as *const Userid)
\* is a Userid AT the address psid: its raw_psid field is the first 8 bytes of
\* the SID there (Revision, SubAuthorityCount, IdentifierAuthority).
as_raw_psid(psid) ==
    IF impl = "oswin" THEN SubSeq(mem[AddrOf(psid)], 1, 8) ELSE psid

\* Mutant of try_clone_to_owned: the POSIX clone can fail as the Windows one.
try_clone_to_owned_PosixCanFail(v) ==
    IF impl = "unix"
    THEN {[out |-> o, code |-> 0, len |-> 0, bytes |-> <<>>, arg |-> <<>>] :
            o \in {"Ok", "Err"}}
    ELSE copy_sid(as_raw_psid(v))

\* try_clone_to_owned of borrow(v)
try_clone_to_owned(v) ==
    IF impl = "unix"
    THEN {[out |-> "Ok", code |-> 0, len |-> 0, bytes |-> <<>>, arg |-> <<>>]}
    ELSE copy_sid(as_raw_psid(v))

\* The four forms of ==, on operands of values lv and rv: the uid, or the
\* pointer to the SID's buffer.
\*   unix:  raw_uid == raw_uid in every form
\*   win:   EqualSid(raw_psid or buf.as_ptr(), raw_psid or buf.as_ptr())
\*   oswin: Userid == Userid is EqualSid(self.raw_psid, other.raw_psid);
\*          UseridBuf == UseridBuf derefs both to &Userid and does the same;
\*          Userid == UseridBuf is self.as_raw_psid() == other.buf.as_ptr();
\*          UseridBuf == Userid is self.buf.as_ptr() == other.as_raw_psid().
eq(form, lv, rv) ==
    CASE impl = "unix" -> {Bool(lv = rv)}
      [] impl = "win" -> EqualSid(lv, rv)
      [] impl = "oswin" /\ form \in {"bb", "oo"} ->
            EqualSid(as_raw_psid(lv), as_raw_psid(rv))
      [] impl = "oswin" /\ form = "bo" -> {Bool(as_raw_psid(lv) = rv)}
      [] impl = "oswin" /\ form = "ob" -> {Bool(lv = as_raw_psid(rv))}

FreeAddrs == {a \in PoolAddrs : mem[a] = <<>>}

Alive == last.out # "fault"

\* `last` only records the latest operation and its result.  An operation
\* that changes nothing else is taken right after one that made or dropped a
\* handle (or at the start); taking it after another such operation would
\* lead to the very same state.
Observing == Alive /\ last.op \in {"none", "clone", "world", "drop"}

\* Mutant of CloneBuffer: the owned handle keeps the pointer it was made from.
CloneBuffer_SharesSource(v) == {AddrOf(v)}

\* where the allocator can put the Vec<u8> of a clone of borrow(v): at any
\* free address
CloneBuffer(v) == FreeAddrs

\* borrow(v).try_clone_to_owned(), the result kept in slot s
IdClone(v, s) ==
    /\ Alive
    /\ ~owned[s].live
    /\ \E o \in try_clone_to_owned(v) :
          /\ last' = [NoOp EXCEPT !.op = "clone", !.out = o.out, !.l = v, !.rs = s,
                         !.code = o.code, !.len = o.len, !.arg = o.arg]
          /\ IF o.out # "Ok"
             THEN UNCHANGED <<mem, owned>>
             ELSE IF impl = "unix"
             THEN /\ owned' = [owned EXCEPT ![s] =
                        [live |-> TRUE, val |-> v, src |-> v, how |-> "clone",
                         bytes |-> <<>>]]
                  /\ UNCHANGED mem
             ELSE \E a \in CloneBuffer(v) :
                     /\ mem' = [mem EXCEPT ![a] = o.bytes]
                     /\ owned' = [owned EXCEPT ![s] =
                           [live |-> TRUE, val |-> Ptr(a), src |-> v, how |-> "clone",
                            bytes |-> o.bytes]]
    /\ UNCHANGED <<impl, pxVars, wlVars>>

\* create_world_sid / OwnedPsid::world(): a buffer of GetSidLengthRequired(1)
\* bytes that CreateWellKnownSid(WinWorldSid) fills, or its failure
IdWorld(s) ==
    /\ Alive
    /\ impl \in WinImpls
    /\ ~owned[s].live
    /\ \/ \E a \in FreeAddrs :
             /\ mem' = [mem EXCEPT ![a] = WorldSid]
             /\ owned' = [owned EXCEPT ![s] =
                   [live |-> TRUE, val |-> Ptr(a), src |-> <<>>, how |-> "world",
                    bytes |-> WorldSid]]
             /\ last' = [NoOp EXCEPT !.op = "world", !.out = "Ok", !.rs = s]
       \/ /\ last' = [NoOp EXCEPT !.op = "world", !.out = "Err", !.rs = s]
          /\ UNCHANGED <<mem, owned>>
    /\ UNCHANGED <<impl, pxVars, wlVars>>

\* The owned handle of slot s is dropped, and its Vec<u8> with it.
IdDrop(s) ==
    /\ Alive
    /\ owned[s].live
    /\ owned' = [owned EXCEPT ![s] = NoOwned]
    /\ mem' = IF impl = "unix" THEN mem
              ELSE [mem EXCEPT ![AddrOf(owned[s].val)] = <<>>]
    /\ last' = [NoOp EXCEPT !.op = "drop", !.ls = s, !.l = owned[s].src]
    /\ UNCHANGED <<impl, pxVars, wlVars>>

Forms == {"bb", "bo", "ob", "oo"}
LeftKind(form) == IF form \in {"bb", "bo"} THEN "b" ELSE "o"
RightKind(form) == IF form \in {"bb", "ob"} THEN "b" ELSE "o"

\* The operands a comparison can take: borrow(v) of a raw value, or the owned
\* handle of a slot; val is the uid, or the pointer to the SID's buffer.
Operands(kind) ==
    IF kind = "b"
    THEN {[val |-> v, slot |-> 0] : v \in RawValues}
    ELSE {[val |-> owned[s].val, slot |-> s] : s \in {x \in Slots : owned[x].live}}

\* lhs == rhs, in one of the four forms
IdEq(form) ==
    /\ Observing
    /\ \E l \in Operands(LeftKind(form)), r \in Operands(RightKind(form)) :
          \E out \in eq(form, l.val, r.val) :
             last' = [NoOp EXCEPT !.op = "eq", !.form = form, !.out = out,
                         !.l = l.val, !.r = r.val, !.ls = l.slot, !.rs = r.slot]
    /\ UNCHANGED <<mem, owned, impl, pxVars, wlVars>>

\* The four forms of == on the owned handles of slots s1 and s2 and their
\* borrowed views (the deref of each), in both orders:
\*   fwd = <<b1 == b2, b1 == o2, o1 == b2, o1 == o2>>
\*   bwd = <<b2 == b1, b2 == o1, o2 == b1, o2 == o1>>
IdEqForms(s1, s2) ==
    /\ Observing
    /\ owned[s1].live /\ owned[s2].live
    /\ LET x == owned[s1].val
           y == owned[s2].val
       IN  \E f1 \in eq("bb", x, y), f2 \in eq("bo", x, y),
              f3 \in eq("ob", x, y), f4 \in eq("oo", x, y),
              g1 \in eq("bb", y, x), g2 \in eq("bo", y, x),
              g3 \in eq("ob", y, x), g4 \in eq("oo", y, x) :
              last' = [NoOp EXCEPT !.op = "forms", !.ls = s1, !.rs = s2,
                          !.l = x, !.r = y,
                          !.fwd = <<f1, f2, f3, f4>>, !.bwd = <<g1, g2, g3, g4>>,
                          !.out = IF "fault" \in {f1, f2, f3, f4, g1, g2, g3, g4}
                                  THEN "fault" ELSE "Ok"]
    /\ UNCHANGED <<mem, owned, impl, pxVars, wlVars>>

Whos == {"user", "group"}

\* IsValidSid(p): nonzero for a valid SID; undefined for a pointer to no
\* buffer at all.
IsValidSid(p) ==
    IF IsAddr(p) /\ mem[AddrOf(p)] # <<>>
    THEN {IF IsValidSidBytes(mem[AddrOf(p)]) THEN "1" ELSE "0"}
    ELSE {"0", "1", "fault"}

\* Mutant of from_raw_psid: the pointer is validated without the null check.
from_raw_psid_NoNullCheck(psid) ==
    {[out |-> IF r = "1" THEN "Some" ELSE IF r = "0" THEN "None" ELSE "fault",
      n |-> 1, prim |-> r] : r \in IsValidSid(psid)}

\* from_raw_psid(psid), of Userid and of Groupid, and borrow_raw(psid):
\*   if psid.is_null() || IsValidSid(psid) == 0 { None } else { Some(..) }
\* n counts the calls of IsValidSid, prim is its answer.
from_raw_psid(psid) ==
    IF psid = NullPsid
    THEN {[out |-> "None", n |-> 0, prim |-> "none"]}
    ELSE {[out |-> IF r = "1" THEN "Some" ELSE IF r = "0" THEN "None" ELSE "fault",
           n |-> 1, prim |-> r] : r \in IsValidSid(psid)}

\* the pointers the validating constructor is tried on
CandidatePsids == {NullPsid} \cup {Ptr(n) : n \in HandleAddrs \cup BadAddrs}

\* Userid::from_raw_psid(psid) / Groupid::from_raw_psid(psid)
IdFromRaw(who, psid) ==
    /\ Observing
    /\ impl \in WinImpls
    /\ \E o \in from_raw_psid(psid) :
          last' = [NoOp EXCEPT !.op = "from_raw", !.who = who, !.l = psid,
                      !.out = o.out, !.n = o.n, !.prim = o.prim, !.arg = psid]
    /\ UNCHANGED <<mem, owned, impl, pxVars, wlVars>>

\* as_raw_uid() / as_raw_gid() / as_raw_psid() of the handle that
\* from_raw_uid(&v) / from_raw_gid(&v) / from_raw_psid_unchecked(v) returns.
\* On POSIX the handle is the u32 at &v, a Userid { raw_uid }.
as_raw(v) == IF impl = "unix" THEN v ELSE as_raw_psid(v)

\* from_raw(v).as_raw()
IdAsRaw(who, v) ==
    /\ Observing
    /\ last' = [NoOp EXCEPT !.op = "as_raw", !.who = who, !.l = v, !.r = as_raw(v),
                    !.out = "Ok"]
    /\ UNCHANGED <<mem, owned, impl, pxVars, wlVars>>

\* the read of raw_psid through a handle placed at p by from_raw_psid_unchecked
\* (os/windows): the 8 bytes at p; undefined when nothing is allocated there
\* (the process ends, or any 8 bytes are read)
ReadRawPsidAt(p) ==
    IF IsAddr(p) /\ mem[AddrOf(p)] # <<>>
    THEN {[out |-> "Ok", r |-> SubSeq(mem[AddrOf(p)], 1, 8)]}
    ELSE {[out |-> "fault", r |-> <<>>]}
         \cup {[out |-> "Ok", r |-> q] : q \in {NullPsid} \cup {Ptr(a) : a \in PoolAddrs}}

\* (*owned).as_raw(): the raw value of the borrowed view of an owned handle.
\*   unix:   Deref gives Userid { raw_uid: self.raw_uid }, as_raw_uid reads it;
\*   win:    as_psid() borrows self.buf.as_ptr(), as_raw_psid returns it;
\*   oswin, UseridBuf:  the view is placed at self.buf.as_ptr() and as_raw_psid
\*           reads the first 8 bytes there;
\*   oswin, GroupidBuf: deref places the view at self.0.as_raw_psid(), which
\*           is already those 8 bytes, and as_raw_psid reads at that address.
deref_as_raw(who, val) ==
    IF impl # "oswin" THEN {[out |-> "Ok", r |-> val]}
    ELSE IF who = "user" THEN {[out |-> "Ok", r |-> as_raw_psid(val)]}
    ELSE ReadRawPsidAt(as_raw_psid(val))

\* the raw value of the borrowed view of the owned handle in slot s
IdViewRaw(who, s) ==
    /\ Observing
    /\ owned[s].live
    /\ \E o \in deref_as_raw(who, owned[s].val) :
          last' = [NoOp EXCEPT !.op = "view", !.who = who, !.ls = s,
                       !.l = owned[s].val, !.r = o.r, !.out = o.out]
    /\ UNCHANGED <<mem, owned, impl, pxVars, wlVars>>

(***************************************************************************)
(* Formatting.  Text is a sequence of character codes.                     *)
(***************************************************************************)
RECURSIVE Digits(_)
\* the decimal digits of a 32-bit x > 0, most significant first: long
\* division by ten over the two limbs
Digits(x) ==
    IF x = U32(0, 0) THEN <<>>
    ELSE LET low == (x[1] % 10) * Limb + x[2]
         IN  Digits(U32(x[1] \div 10, low \div 10)) \o <<48 + (low % 10)>>

\* what "{}" writes for a u32
Decimal(x) == IF x = U32(0, 0) THEN <<48>> ELSE Digits(x)

\* Mutant of fmt_raw: Debug as #[derive(Debug)] would write it.
fmt_raw_DerivedDebug(mode, kind, v) ==
    IF mode = "Debug"
    THEN (IF kind = "b" THEN <<85, 105, 100>> ELSE <<85, 105, 100, 66, 117, 102>>)
         \o <<40>> \o Decimal(v) \o <<41>>
    ELSE Decimal(v)

\* POSIX, Display and Debug of Userid / UseridBuf / Groupid / GroupidBuf:
\* write!(f, "{}", self.raw_uid) in each of them
fmt_raw(mode, kind, v) == Decimal(v)

\* the string form of a SID: S-<revision>-<authority>-<subauthority>...
StringSid(sid) ==
    LET sub(i) == U32(sid[8 + 4 * i] * 256 + sid[7 + 4 * i],
                      sid[6 + 4 * i] * 256 + sid[5 + 4 * i])
    IN  <<83, 45>> \o Decimal(U32(0, sid[1])) \o <<45>> \o Decimal(U32(0, sid[8]))
        \o Flatten([i \in 1..sid[2] |-> <<45>> \o Decimal(sub(i))])

\* ConvertSidToStringSidW(p, &out): nonzero and a NUL-terminated wide string
\* for a valid SID, or zero (LocalAlloc can fail); undefined for a pointer to
\* no SID (the process ends, or zero, or nonzero with some string).
ConvertSidToStringSidW(p) ==
    LET res(rc, w) == [out |-> "Ok", rc |-> rc, w |-> w]
    IN  IF PointsToSid(p)
        THEN {res(1, StringSid(SidIn(mem[AddrOf(p)])) \o <<0>>), res(0, <<>>)}
        ELSE {[out |-> "fault", rc |-> 0, w |-> <<>>],
              res(0, <<>>), res(1, StringSid(SystemSid) \o <<0>>)}

RECURSIVE from_utf16_lossy(_)
\* String::from_utf16_lossy: a surrogate pair is one character, a surrogate
\* without its partner is U+FFFD, any other unit is itself
from_utf16_lossy(w) ==
    IF w = <<>> THEN <<>>
    ELSE IF Head(w) < 55296 \/ Head(w) > 57343
         THEN <<Head(w)>> \o from_utf16_lossy(Tail(w))
    ELSE IF Head(w) < 56320 /\ Len(w) >= 2 /\ w[2] >= 56320 /\ w[2] <= 57343
         THEN <<65536 + (Head(w) - 55296) * 1024 + (w[2] - 56320)>>
              \o from_utf16_lossy(Tail(Tail(w)))
    ELSE <<65533>> \o from_utf16_lossy(Tail(w))

\* convert_to_string_sid on psid, then Display / Debug for Userid (fmt_sid):
\* the string up to wcslen, from_utf16_lossy, written with write!(f, "{}", ..)
\* when the return code is nonzero; Err(fmt::Error) and nothing written
\* otherwise.  prim is what the primitive did, str the string it produced.
fmt_sid(psid) ==
    {IF c.out = "fault"
     THEN [out |-> "fault", text |-> <<>>, prim |-> "fault", str |-> <<>>, arg |-> psid]
     ELSE IF c.rc # 0
     THEN [out |-> "Ok", text |-> from_utf16_lossy(TakeUntilNul(c.w)), prim |-> "ok",
           str |-> TakeUntilNul(c.w), arg |-> psid]
     ELSE [out |-> "Err", text |-> <<>>, prim |-> "fail", str |-> <<>>, arg |-> psid] :
       c \in ConvertSidToStringSidW(psid)}

\* #[derive(Debug)] on a tuple struct: the name, "(", the field's Debug, and
\* ")" when that succeeded; the names are Groupid and GroupidBuf
DebugTuple(kind, inner) ==
    LET name == <<71, 114, 111, 117, 112, 105, 100>>
                \o (IF kind = "b" THEN <<>> ELSE <<66, 117, 102>>)
    IN  [inner EXCEPT !.text = name \o <<40>> \o inner.text
                               \o (IF inner.out = "Ok" THEN <<41>> ELSE <<>>)]

\* Display for the owned group handle of os/windows: the Display of its
\* borrowed view (GroupidBuf's deref, then Groupid and Userid Display).
fmt_GroupidBuf_Display(val) ==
    UNION {IF v.out = "fault"
           THEN {[out |-> "fault", text |-> <<>>, prim |-> "none", str |-> <<>>,
                  arg |-> as_raw_psid(val)]}
           ELSE fmt_sid(v.r) : v \in ReadRawPsidAt(as_raw_psid(val))}

\* Display (mode "Display") or Debug of a handle; kind "b" is the borrowed
\* handle made from val, "o" the owned handle whose buffer is at val.
\*   win:   BorrowedPsid and OwnedPsid (through as_psid) convert self.raw_psid;
\*   oswin: Userid converts self.raw_psid; UseridBuf and Groupid write their
\*          Userid; Debug of Groupid and GroupidBuf is derived.
fmt(mode, who, kind, val) ==
    IF impl = "unix"
    THEN {[out |-> "Ok", text |-> fmt_raw(mode, kind, val), prim |-> "none",
           str |-> <<>>, arg |-> <<>>]}
    ELSE IF impl = "win" THEN fmt_sid(val)
    ELSE IF who = "user" THEN fmt_sid(as_raw_psid(val))
    ELSE IF mode = "Debug"
         THEN {DebugTuple(kind, i) : i \in fmt_sid(as_raw_psid(val))}
    ELSE IF kind = "b" THEN fmt_sid(as_raw_psid(val))
    ELSE fmt_GroupidBuf_Display(val)

\* format!("{}", h) or format!("{:?}", h) of a borrowed or an owned handle
IdFmt(mode, who, kind) ==
    /\ Observing
    /\ \E x \in Operands(kind) :
          \E o \in fmt(mode, who, kind, x.val) :
             last' = [NoOp EXCEPT !.op = "fmt", !.form = mode, !.who = who,
                         !.l = x.val, !.ls = x.slot, !.out = o.out, !.text = o.text,
                         !.prim = o.prim, !.r = o.str, !.arg = o.arg]
    /\ UNCHANGED <<mem, owned, impl, pxVars, wlVars>>

NextId ==
    \/ \E mode \in {"Display", "Debug"}, who \in Whos, kind \in {"b", "o"} :
          IdFmt(mode, who, kind)
    \/ \E who \in Whos, s \in Slots : IdViewRaw(who, s)
    \/ \E who \in Whos, p \in CandidatePsids : IdFromRaw(who, p)
    \/ \E who \in Whos : \E v \in RawValues : IdAsRaw(who, v)
    \/ \E s \in Slots : \E v \in RawValues : IdClone(v, s)
    \/ \E s \in Slots : IdWorld(s)
    \/ \E s \in Slots : IdDrop(s)
    \/ \E form \in Forms : IdEq(form)
    \/ \E s1 \in Slots, s2 \in Slots : IdEqForms(s1, s2)

Init == InitPx /\ InitWl /\ InitId

SpecPosix == Init /\ [][NextPosix]_vars

SpecWin == Init /\ [][NextWin]_vars

\* The handles take no part in the lookups: what sysconf answers is fixed.
InitHandles == Init /\ scPw = -1 /\ scGr = -1

SpecId == InitHandles /\ [][NextId]_vars

\* The account name of two buffers of UTF-16 units, whatever they hold: the
\* buffers are drawn from every sequence of at most MaxBufLen units.
MaxBufLen == 3
WideUnits == {0, 65, Backslash}
WideBufs == UNION {[1..n -> WideUnits] : n \in 0..MaxBufLen}

AccountName(wide_domain_buf, wide_name_buf) ==
    /\ last.op = "none"
    /\ last' = [NoOp EXCEPT !.op = "accountname", !.l = wide_domain_buf,
                    !.r = wide_name_buf,
                    !.text = accountname_from_wide_domain_and_name(wide_domain_buf,
                                                                  wide_name_buf)]
    /\ UNCHANGED <<mem, owned, impl, pxVars, wlVars>>

NextName == \E d \in WideBufs, n \in WideBufs : AccountName(d, n)

InitName == Init /\ impl = "win" /\ scPw = -1 /\ scGr = -1

SpecName == InitName /\ [][NextName]_vars

\* One POSIX lookup at a time on thread t1 and one account-name lookup at a
\* time on thread t2, with fairness: a lookup that has started keeps running,
\* and each call of an OS primitive returns.
NextLookups ==
    \/ \E fn \in Fns : \E id \in IdsFor(fn) : PxBegin("t1", fn, id)
    \/ PxCall("t1")
    \/ PxReturn("t1")
    \/ PxGroupMem("t1")
    \/ PxDrop("t1")
    \/ \E p \in LookupPsids : WlBegin("t2", p)
    \/ WlCall1("t2")
    \/ WlAfter1("t2")
    \/ WlCall2("t2")
    \/ WlAfter2("t2")
    \/ WlDrop("t2")

FairLookups ==
    /\ WF_vars(PxCall("t1")) /\ WF_vars(PxReturn("t1"))
    /\ WF_vars(WlCall1("t2")) /\ WF_vars(WlAfter1("t2"))
    /\ WF_vars(WlCall2("t2")) /\ WF_vars(WlAfter2("t2"))

\* The lookups take raw values, not handles: which handle module is built
\* makes no difference to them.
InitLookups == Init /\ impl = "win"

SpecLookups == InitLookups /\ [][NextLookups]_vars /\ FairLookups

(***************************************************************************)
(*                      Properties of the POSIX lookups                    *)
(***************************************************************************)
HasEntry(fn, id) == id \in (IF fn \in UserFns THEN DOMAIN PasswdDb ELSE DOMAIN GroupDb)

Returned(t) == px[t].pc = "done"

\* C3: the record lookup maps the primitive's result to exactly one outcome:
\* return code 0 and the out-pointer equal to the address of the caller's
\* record is Found, and the record returned is that record; return code 0 and
\* any other out-pointer is NoRecord; a nonzero return code is Io.
C3_OutcomeOfPrimitive ==
    \A t \in Threads :
        Returned(t) =>
            LET f == px[t] IN
            /\ (f.inner.tag = "Ok") <=> (f.return_code = 0 /\ f.result = t)
            /\ (f.inner.tag = "NoRecord") <=> (f.return_code = 0 /\ f.result # t)
            /\ (f.inner.tag = "Io") <=> (f.return_code # 0)
            /\ f.inner.tag = "Ok" => (f.inner.val.raw = f.raw /\ f.inner.val.buf = f.buf)
            /\ f.fn \notin NameFns => f.ret.tag = f.inner.tag

\* Witness of C3: one record lookup has returned Found while another has
\* returned NoRecord after the primitive returned 0.
C3_Witness ==
    \E t, u \in Threads :
        /\ Returned(t) /\ px[t].fn = "lookup_passwd" /\ px[t].ret.tag = "Ok"
        /\ Returned(u) /\ px[u].fn = "lookup_group" /\ px[u].ret.tag = "NoRecord"
        /\ px[u].return_code = 0

\* C4 as stated: for an id with no entry, the record lookup and the name
\* lookup both return NoRecord, never Io and never a record or a name.
C4_NoEntryIsAlwaysNoRecord ==
    \A t \in Threads :
        (Returned(t) /\ ~HasEntry(px[t].fn, px[t].id)) => px[t].ret.tag = "NoRecord"

\* C4 amended: for an id with no entry, the record lookup and the name lookup
\* never return a record or a name; they return NoRecord exactly when the
\* primitive returned 0, and Io exactly when it returned an error number.
C4_NoEntryIsNoRecordUnlessPrimitiveFails ==
    \A t \in Threads :
        (Returned(t) /\ ~HasEntry(px[t].fn, px[t].id)) =>
            /\ px[t].ret.tag # "Ok"
            /\ (px[t].ret.tag = "NoRecord") <=> (px[t].return_code = 0)
            /\ (px[t].ret.tag = "Io") <=> (px[t].return_code # 0)

\* Witness of C4: a record lookup and a name lookup of MAX - 3 have both
\* returned NoRecord.
C4_Witness ==
    \E t, u \in Threads :
        /\ Returned(t) /\ px[t].fn = "lookup_passwd" /\ px[t].id = NoRecordId
        /\ px[t].ret.tag = "NoRecord"
        /\ Returned(u) /\ px[u].fn = "groupname" /\ px[u].id = NoRecordId
        /\ px[u].ret.tag = "NoRecord"

C6_NameIsRecordLookupThenName ==
    \A t \in Threads :
        (Returned(t) /\ px[t].fn \in NameFns) =>
            LET f == px[t] IN
            /\ f.lookups = 1 /\ f.calls = 1
            /\ f.ret.tag = f.inner.tag
            /\ f.ret.tag = "Ok" =>
                  f.ret.val = (IF f.fn \in UserFns THEN Passwd_name(f.inner.val)
                               ELSE Group_name(f.inner.val))
            /\ f.ret.tag = "Io" => f.ret.code = f.inner.code

\* Witness of C6: one name lookup has returned a name, another an Io error.
C6_Witness ==
    \E t, u \in Threads :
        /\ Returned(t) /\ px[t].fn = "username" /\ px[t].ret.tag = "Ok"
        /\ px[t].ret.val = s_al
        /\ Returned(u) /\ px[u].fn = "groupname" /\ px[u].ret.tag = "Io"

\* C15: Group::mem() returns exactly the group's member names, in the order
\* of the array, up to the first null slot: <<al, bo>> for the group of al
\* and bo, nothing for a group without members, whether its array holds only
\* the null slot or gr_mem itself is null.
C15_MemIsTheMembersInOrder ==
    \A t \in Threads :
        px[t].pc = "read" => px[t].members = GroupDb[px[t].id].mem

C15_Witness ==
    \E t1, t2 \in Threads :
        /\ px[t1].pc = "read" /\ px[t1].members = <<s_al, s_bo>>
        /\ px[t2].pc = "read" /\ px[t2].members = <<>>
        /\ px[t2].raw.gr_mem = NULL

\* what the primitive can answer to the lookup fn of id
AnswersFor(fn, id) ==
    IF fn \in UserFns THEN GetpwuidR(id, BufLenFor(fn)) ELSE GetgrgidR(id, BufLenFor(fn))

\* what the lookup fn of id can return when it runs alone: the outcome of each
\* answer of the primitive, an error carrying any of the error numbers
AloneOutcomes(fn, id) ==
    UNION {
      IF a.rc # 0 THEN {Io(e) : e \in {0, EIO, ERANGE}}
      ELSE IF ~a.found THEN {NoRecord}
      ELSE IF fn = "username" THEN {Ok(PasswdDb[id].name)}
      ELSE IF fn = "groupname" THEN {Ok(GroupDb[id].name)}
      ELSE {Ok([raw |-> a.raw, buf |-> [len |-> BufLenFor(fn), data |-> a.data,
                                         ptrs |-> a.ptrs]])} :
      a \in AnswersFor(fn, id)}

\* C21: lookups running on separate threads share no mutable state: whatever
\* the interleaving, the record and buffer of a lookup hold what the
\* primitive answered to this lookup, and the lookup returns an outcome it
\* can return when it runs alone against the same database.
C21_ConcurrentLookupsDoNotInterfere ==
    \A t \in Threads :
        LET f == px[t] IN
        /\ f.pc \in {"ret", "done", "read"} =>
              [rc |-> f.return_code, found |-> (f.result = t), raw |-> f.raw,
               data |-> f.buf.data, ptrs |-> f.buf.ptrs] \in AnswersFor(f.fn, f.id)
        /\ f.pc \in {"done", "read"} => f.ret \in AloneOutcomes(f.fn, f.id)

\* Witness of C21: two lookups of different ids are in flight at once, each
\* with the answer of the primitive in its own record, neither returned yet.
C21_Witness ==
    \E t, u \in Threads :
        /\ t # u
        /\ px[t].pc = "ret" /\ px[t].fn = "lookup_passwd" /\ px[t].id = U32(0, 1000)
        /\ px[t].result = t
        /\ px[u].pc = "ret" /\ px[u].fn = "lookup_group" /\ px[u].id = U32(0, 100)
        /\ px[u].result = u

\* C22: a POSIX lookup calls the reentrant primitive exactly once: when the
\* primitive returns ERANGE, or any other nonzero code, the lookup returns Io
\* with the buffer it allocated at first, not grown, and the primitive not
\* called again.
C22_OneCallNoRetry ==
    \A t \in Threads :
        LET f == px[t] IN
        /\ f.calls <= 1
        /\ f.pc \in {"ret", "done", "read"} => f.calls = 1
        /\ Returned(t) =>
              /\ f.buf.len = BufLenFor(f.fn) /\ f.passed = BufLenFor(f.fn)
              /\ f.return_code # 0 => f.ret.tag = "Io"

\* Witness of C22: a lookup whose one call returned ERANGE has returned Io.
C22_Witness ==
    \E t \in Threads :
        /\ Returned(t) /\ HasEntry(px[t].fn, px[t].id)
        /\ px[t].return_code = ERANGE /\ px[t].calls = 1
        /\ px[t].ret.tag = "Io"

Outcomes == {"Ok", "NoRecord", "Io"}

\* C23: every lookup that starts eventually returns, given that each call of
\* an OS primitive returns, and what it returns is one of Found, NoRecord and
\* Io; no lookup loops, and none returns without one of these.
C23_LookupsReturn ==
    /\ (px["t1"].pc = "call") ~> (px["t1"].pc = "done" /\ px["t1"].ret.tag \in Outcomes)
    /\ (wl["t2"].pc = "call1") ~> (wl["t2"].pc = "done" /\ wl["t2"].ret.tag \in Outcomes)
    /\ [](px["t1"].pc = "done" => px["t1"].ret.tag \in Outcomes)
    /\ [](wl["t2"].pc = "done" => wl["t2"].ret.tag \in Outcomes)

\* Witness of C23: a POSIX lookup has returned Io after ERANGE, and an
\* account-name lookup has returned a name after its retry.
C23_Witness ==
    /\ px["t1"].pc = "done" /\ px["t1"].return_code = ERANGE /\ px["t1"].ret.tag = "Io"
    /\ wl["t2"].pc = "done" /\ wl["t2"].calls = 2 /\ wl["t2"].ret.tag = "Ok"

\* the size the system recommends for the buffer of the primitive fn calls
Recommended(fn) == IF fn \in UserFns THEN scPw ELSE scGr

\* C24: the buffer length passed to the primitive is the length of the buffer
\* allocated, and that is the size the system recommends (for passwd records
\* in the user lookups, for group records in the group lookups) when the
\* query succeeds, 1024 when it returns -1.
C24_BufferIsRecommendedSize ==
    \A t \in Threads :
        px[t].pc \in {"ret", "done", "read"} =>
            /\ px[t].passed = px[t].buf.len
            /\ px[t].buf.len = (IF Recommended(px[t].fn) = -1 THEN 1024
                                ELSE Recommended(px[t].fn))

\* C25: when the primitive returns a nonzero error number e, the lookup
\* returns Io carrying e, the reason the primitive reported.
C25_IoCarriesThePrimitivesError ==
    \A t \in Threads :
        (Returned(t) /\ px[t].return_code # 0) =>
            (px[t].ret.tag = "Io" /\ px[t].ret.code = px[t].return_code)

\* p points to a string that lies inside buf
InBuffer(buf, p) == p \in 1..buf.len /\ p + Len(CStrFrom(buf, p)) <= buf.len

\* C26: a record returned as Found owns the buffer its string fields point
\* into: the name, home-directory, shell and member-name pointers all point
\* inside the record's own buffer, which is allocated as long as the record
\* is; after NoRecord and Io no record and no buffer are left.
C26_RecordOwnsItsBuffer ==
    \A t \in Threads :
        LET f == px[t] IN
        /\ (f.pc \in {"done", "read"} /\ f.fn \notin NameFns /\ f.ret.tag = "Ok") =>
              /\ f.allocated
              /\ f.ret.val.buf = f.buf
              /\ f.fn = "lookup_passwd" =>
                    \A p \in {f.ret.val.raw.pw_name, f.ret.val.raw.pw_dir,
                              f.ret.val.raw.pw_shell} : InBuffer(f.buf, p)
              /\ f.fn = "lookup_group" =>
                    /\ InBuffer(f.buf, f.ret.val.raw.gr_name)
                    /\ Len(f.buf.data) + Len(f.buf.ptrs) * PtrSize <= f.buf.len
                    /\ \A i \in 1..Len(f.buf.ptrs) :
                          f.buf.ptrs[i] # NULL => InBuffer(f.buf, f.buf.ptrs[i])
        /\ (f.pc = "done" /\ f.ret.tag \in {"NoRecord", "Io"}) =>
              (~f.allocated /\ f.ret.val = <<>>)
        /\ f.pc = "idle" => ~f.allocated

\* Witness of C26: a group record with members is held by its caller while
\* another lookup has returned NoRecord and left nothing.
C26_Witness ==
    \E t, u \in Threads :
        /\ px[t].pc = "done" /\ px[t].fn = "lookup_group" /\ px[t].ret.tag = "Ok"
        /\ Len(px[t].buf.ptrs) = 3 /\ px[t].allocated
        /\ px[u].pc = "done" /\ px[u].fn = "lookup_passwd" /\ px[u].ret.tag = "NoRecord"
        /\ ~px[u].allocated

\* C30: Group::mem() ends, and on an array of n members and a null entry it
\* reads the slots 0..n in that order, the null one last and none after it,
\* and dereferences the n name pointers before it, none of them null; when
\* gr_mem itself is null no slot is read.
C30_MemStopsAtTheFirstNull ==
    \A t \in Threads :
        px[t].pc = "read"
        => LET g == px[t].ret.val
               n == Len(GroupDb[px[t].id].mem)
           IN  IF g.raw.gr_mem = NULL
               THEN px[t].slots = <<>> /\ px[t].derefs = <<>>
               ELSE /\ px[t].slots = [k \in 1..(n + 1) |-> k - 1]
                    /\ g.buf.ptrs[g.raw.gr_mem + n] = NULL
                    /\ px[t].derefs = [k \in 1..n |-> g.buf.ptrs[g.raw.gr_mem + k - 1]]
                    /\ \A k \in 1..n : px[t].derefs[k] # NULL

\* Witness of C30: the group of al and bo: three slots read, two names
\* dereferenced.
C30_Witness ==
    \E t \in Threads :
        /\ px[t].pc = "read" /\ px[t].members = <<s_al, s_bo>>
        /\ px[t].slots = <<0, 1, 2>> /\ Len(px[t].derefs) = 2

(***************************************************************************)
(*                       Properties of the handles                         *)
(***************************************************************************)

\* the last operation compared borrow(v) with an owned handle that is a
\* clone of borrow(v), in one direction or the other
ComparedWithOwnClone ==
    /\ last.op = "eq"
    /\ \/ last.form = "bo" /\ owned[last.rs].how = "clone" /\ owned[last.rs].src = last.l
       \/ last.form = "ob" /\ owned[last.ls].how = "clone" /\ owned[last.ls].src = last.r

\* C1: for every raw identity value v, an owned handle that a successful
\* clone-to-owned of borrow(v) returned compares equal to a fresh borrow(v),
\* as borrowed == owned and as owned == borrowed.  (Violated by the Userid /
\* UseridBuf implementation.)
C1_CloneEqualsFreshBorrow ==
    ComparedWithOwnClone => last.out = "true"

\* the last operation compared two valid SIDs that live in distinct buffers
ComparedSidsInDistinctBuffers ==
    /\ impl \in WinImpls
    /\ last.op = "eq"
    /\ PointsToSid(last.l) /\ PointsToSid(last.r)
    /\ last.l # last.r

\* C2: on the security-descriptor platform, each of the four forms of
\* equality, on two valid SIDs in distinct buffers, returns what the same-SID
\* predicate says of the two SIDs: true for the same identity, false for
\* different ones.  (Violated by the Userid / UseridBuf implementation.)
C2_EqualityIsSameSidInEveryForm ==
    ComparedSidsInDistinctBuffers
    => last.out = Bool(SidIn(mem[AddrOf(last.l)]) = SidIn(mem[AddrOf(last.r)]))

\* C11: the validating constructor of the user and of the group handle
\* returns None for a null pointer without calling IsValidSid, None for a
\* non-null pointer that IsValidSid rejects, and Some(handle) for one it
\* accepts.
C11_FromRawValidates ==
    last.op = "from_raw"
    => /\ last.l = NullPsid => last.out = "None" /\ last.n = 0
       /\ last.l # NullPsid
          => /\ last.n = 1
             /\ last.prim = "0" => last.out = "None"
             /\ last.prim = "1" => last.out = "Some"

C11_Witness ==
    /\ last.op = "from_raw" /\ last.who = "group"
    /\ last.l = Ptr(160) /\ last.prim = "0" /\ last.out = "None"

\* C12: a handle built from a raw value holds that value: as_raw of the
\* handle that from_raw made of v returns v, for every uid or gid and for
\* every pointer to a valid SID.  (Violated by the Userid / Groupid
\* implementation of the security-descriptor platform.)
C12_AsRawReturnsTheRawValue ==
    last.op = "as_raw" => last.r = last.l

\* C13: whatever clone-to-owned and drop operations were done, every live
\* owned handle has storage of its own, shared neither with another owned
\* handle nor with the buffer it was copied from, and holding what it held
\* when it was made; the caller's buffers are as they were.  So a drop leaves
\* every other handle valid and as it was.
C13_OwnedStorageIsNotShared ==
    /\ \A a \in HeapAddrs \cup BadAddrs : mem[a] = CallerHeap[a]
    /\ \A s \in Slots :
          owned[s].live
          => IF impl = "unix"
             THEN owned[s].val = owned[s].src
             ELSE /\ AddrOf(owned[s].val) \in PoolAddrs
                  /\ owned[s].val # owned[s].src
                  /\ mem[AddrOf(owned[s].val)] = owned[s].bytes
                  /\ owned[s].bytes # <<>>
                  /\ \A s2 \in Slots \ {s} : owned[s2].live => owned[s2].val # owned[s].val

C13_Witness ==
    /\ impl = "win"
    /\ last.op = "drop"
    /\ \E s \in Slots :
          /\ owned[s].live /\ owned[s].how = "clone" /\ owned[s].src = last.l
          /\ SidIn(mem[AddrOf(owned[s].val)]) = SidIn(mem[AddrOf(owned[s].src)])

\* C14: the borrowed view of an owned handle denotes the owned handle's own
\* identity: its raw value is the owned handle's stored value (POSIX), the
\* address of the owned handle's own buffer (Windows, user and group).
C14_ViewDenotesTheOwnedHandle ==
    last.op = "view" => last.out = "Ok" /\ last.r = last.l /\ last.l = owned[last.ls].val

\* C16: when the SID-to-string primitive fails, Display and Debug of a
\* borrowed and of an owned handle return a formatting error and write nothing;
\* when it succeeds they write exactly the string it produced.
C16_FormattingFollowsThePrimitive ==
    (impl \in WinImpls /\ last.op = "fmt")
    => /\ last.prim = "fail" => (last.out = "Err" /\ last.text = <<>>)
       /\ last.prim = "ok" => (last.out = "Ok" /\ last.text = last.r)

\* C17: world() yields an owned group handle for Everyone: whenever it
\* succeeds the handle's buffer holds the SID S-1-1-0, and Display of the
\* handle writes exactly "S-1-1-0".
C17_WorldDisplaysAsEveryone ==
    /\ (last.op = "world" /\ last.out = "Ok")
       => SidIn(mem[AddrOf(owned[last.rs].val)]) = WorldSid
    /\ (/\ last.op = "fmt" /\ last.form = "Display" /\ last.ls # 0
        /\ owned[last.ls].how = "world")
       => /\ last.out # "fault"
          /\ last.out = "Ok" => last.text = <<83, 45, 49, 45, 49, 45, 48>>

\* C18: on POSIX, clone-to-owned returns Ok for every uid and gid, never an
\* error, and the owned handle stores the raw value of the borrowed one.
C18_PosixCloneCannotFail ==
    (impl = "unix" /\ last.op = "clone")
    => /\ last.out = "Ok"
       /\ owned[last.rs].live
       /\ owned[last.rs].val = last.l

C18_Witness ==
    /\ impl = "unix" /\ last.op = "clone" /\ last.l = NoRecordId
    /\ owned[last.rs].val = U32(Limb - 1, Limb - 4)
    /\ \E s \in Slots \ {last.rs} : owned[s].live /\ owned[s].val = U32(0, 0)

\* C19: on Windows, clone-to-owned asks the OS for the length of the source
\* SID, allocates a buffer of exactly that length and copies the source SID
\* into it; when the copy fails it returns an Io error carrying the last OS
\* error and no owned handle is made; when it succeeds the owned buffer holds
\* a SID equal to the source.
C19_CloneCopiesTheSourceSid ==
    (impl \in WinImpls /\ last.op = "clone")
    => /\ last.arg = last.l
       /\ last.out \in {"Ok", "Err"}
       /\ last.len = SidLength(mem[AddrOf(last.l)])
       /\ last.out = "Err" => (last.code # 0 /\ ~owned[last.rs].live)
       /\ last.out = "Ok"
          => /\ owned[last.rs].live
             /\ Len(owned[last.rs].bytes) = last.len
             /\ SidIn(mem[AddrOf(owned[last.rs].val)]) = SidIn(mem[AddrOf(last.l)])

RECURSIVE ValueOfDigits(_, _)
\* the 32-bit number the digit string `text` denotes after the digits that
\* gave acc: acc * 10 + digit at each step, over the two limbs
ValueOfDigits(text, acc) ==
    IF text = <<>> THEN acc
    ELSE LET lo == acc[2] * 10 + (Head(text) - 48)
             hi == acc[1] * 10 + (lo \div Limb)
         IN  ValueOfDigits(Tail(text), U32(hi % Limb, lo % Limb))

\* text is the decimal representation of v: digits only, no leading zero,
\* denoting v
IsDecimalOf(text, v) ==
    /\ Len(text) \in 1..10
    /\ \A i \in 1..Len(text) : text[i] \in 48..57
    /\ Len(text) > 1 => text[1] # 48
    /\ ValueOfDigits(text, U32(0, 0)) = v

\* C20: on POSIX, Display and Debug of a borrowed and of an owned handle for
\* the raw value v all write the same string, the decimal representation of v.
C20_PosixFormatsAsDecimal ==
    (impl = "unix" /\ last.op = "fmt")
    => last.out = "Ok" /\ IsDecimalOf(last.text, last.l)

C20_Witness ==
    /\ impl = "unix" /\ last.op = "fmt" /\ last.form = "Debug" /\ last.ls # 0
    /\ last.l = NoRecordId
    /\ last.text = <<52, 50, 57, 52, 57, 54, 55, 50, 57, 50>>

\* where the first NUL of buf is, or one past its end when it holds none
FirstNul(buf) ==
    IF \E i \in 1..Len(buf) : buf[i] = 0
    THEN CHOOSE i \in 1..Len(buf) : buf[i] = 0 /\ \A j \in 1..(i - 1) : buf[j] # 0
    ELSE Len(buf) + 1

\* C27: the account name is the units of the domain buffer before its first
\* NUL (all of them when it holds none), one backslash, and the units of the
\* name buffer before its first NUL; nothing at or after the first NUL of
\* either buffer is in it.
C27_AccountNameIsDomainBackslashName ==
    last.op = "accountname"
    => LET d == FirstNul(last.l) - 1
           n == FirstNul(last.r) - 1
       IN  /\ Len(last.text) = d + 1 + n
           /\ \A i \in 1..d : last.text[i] = last.l[i]
           /\ last.text[d + 1] = 92
           /\ \A i \in 1..n : last.text[d + 1 + i] = last.r[i]
           /\ \A i \in 1..Len(last.text) : last.text[i] # 0

\* Witness of C27: a domain buffer with a unit after its NUL and a name
\* buffer without a NUL.
C27_Witness ==
    /\ last.op = "accountname"
    /\ last.l = <<65, 0, 92>> /\ last.r = <<92, 65, 65>>
    /\ last.text = <<65, 92, 92, 65, 65>>

\* the slots that hold a live handle made by world()
WorldSlots == {s \in Slots : owned[s].live /\ owned[s].how = "world"}

\* C28: world() caches nothing: any two live handles that successful calls of
\* world() returned have distinct buffers of their own, each holding the
\* Everyone SID whatever was dropped meanwhile, and they compare equal to
\* each other.  (Violated by the owned == owned of Userid / UseridBuf.)
C28_WorldHandlesAreIndependentAndEqual ==
    /\ \A s \in WorldSlots :
          /\ AddrOf(owned[s].val) \in PoolAddrs
          /\ mem[AddrOf(owned[s].val)] = WorldSid
          /\ \A s2 \in WorldSlots \ {s} : owned[s2].val # owned[s].val
    /\ (/\ last.op = "eq" /\ last.form = "oo"
        /\ last.ls \in WorldSlots /\ last.rs \in WorldSlots /\ last.ls # last.rs)
       => last.out = "true"

\* C29: equality is the same in every form.  For owned handles o1, o2 and
\* their borrowed views b1, b2, the comparisons b1 == b2, b1 == o2, o1 == b2
\* and o1 == o2 return one and the same boolean, and so do the four with the
\* sides exchanged (symmetry); it is true for a handle and itself (reflexivity)
\* and for two clones of one value.  (Violated by Userid / UseridBuf.)
C29_EqualityAgreesAcrossForms ==
    last.op = "forms"
    => /\ last.out = "Ok"
       /\ \A i \in 1..4 : last.fwd[i] = last.fwd[1] /\ last.bwd[i] = last.fwd[1]
       /\ last.fwd[1] \in {"true", "false"}
       /\ last.ls = last.rs => last.fwd[1] = "true"
       /\ (/\ owned[last.ls].how = "clone" /\ owned[last.rs].how = "clone"
           /\ owned[last.ls].src = owned[last.rs].src)
          => last.fwd[1] = "true"

(***************************************************************************)
(*               Properties of the account-name lookup                     *)
(***************************************************************************)

\* the SID a lookup was asked about
SidOfLookup(t) == SidIn(mem[AddrOf(wl[t].psid)])

\* the account name of a SID that has one
FullAccountName(sid) == AccountDb[sid].domain \o <<Backslash>> \o AccountDb[sid].name

\* name and domain both fit the stack buffers, NUL included
FitsStackBuffers(sid) ==
    /\ Len(AccountDb[sid].name) + 1 <= StackBufLen
    /\ Len(AccountDb[sid].domain) + 1 <= StackBufLen

RetrySucceeded(t) == wl[t].pc = "done" /\ wl[t].calls = 2 /\ wl[t].rc2 # 0

\* C7: when the retry on the heap buffers succeeds for a SID whose name or
\* domain does not fit the 32-unit stack buffers, the lookup returns the
\* domain\name the retry wrote to the heap buffers, the SID's full account
\* name.  (Violated: the name is decoded from the stack buffers.)
C7_RetrySuccessReturnsWhatRetryWrote ==
    \A t \in Threads :
        (RetrySucceeded(t) /\ ~FitsStackBuffers(SidOfLookup(t)))
        => /\ wl[t].ret = Ok(accountname_from_wide_domain_and_name(
                                wl[t].wide_domain, wl[t].wide_name))
           /\ wl[t].ret = Ok(FullAccountName(SidOfLookup(t)))

\* C8: a first call that fails with ERROR_NONE_MAPPED ends the lookup with
\* NoRecord, and the primitive is not called a second time.
C8_NoneMappedIsNoRecordWithoutRetry ==
    \A t \in Threads :
        (wl[t].calls >= 1 /\ wl[t].rc1 = 0 /\ wl[t].err1 = ERROR_NONE_MAPPED)
        => /\ wl[t].calls = 1
           /\ wl[t].pc \in {"after1", "done"}
           /\ wl[t].pc = "done" => wl[t].ret = NoRecord

C8_Witness ==
    \E t \in Threads :
        /\ wl[t].pc = "done" /\ wl[t].calls = 1
        /\ wl[t].rc1 = 0 /\ wl[t].err1 = ERROR_NONE_MAPPED
        /\ wl[t].ret = NoRecord

\* C9: the primitive is called at most twice in a lookup; the second call is
\* made only after a first call that failed otherwise than with
\* ERROR_NONE_MAPPED, and on heap buffers as long as the name and domain
\* lengths the first call left (the required ones, when it reported them).
C9_AtMostOneRetryOnBuffersOfReportedLength ==
    \A t \in Threads :
        /\ wl[t].calls <= 2
        /\ wl[t].pc \in {"after2", "done"} => wl[t].calls \in {1, 2}
        /\ wl[t].pc = "after2" => wl[t].calls = 2
        /\ (wl[t].pc = "call2" \/ wl[t].calls = 2)
           => /\ wl[t].rc1 = 0 /\ wl[t].err1 # ERROR_NONE_MAPPED
              /\ Len(wl[t].wide_name) = wl[t].len1[1]
              /\ Len(wl[t].wide_domain) = wl[t].len1[2]

C9_Witness ==
    \E t \in Threads :
        /\ wl[t].pc = "done" /\ wl[t].calls = 2
        /\ wl[t].err1 = ERROR_INSUFFICIENT_BUFFER
        /\ Len(wl[t].wide_name) = StackBufLen + 1

\* C10: a retry that fails, for a too small buffer again or for anything
\* else, ends the lookup with NoRecord; no account-name lookup returns Io.
C10_RetryFailureIsNoRecordNeverIo ==
    \A t \in Threads :
        /\ wl[t].ret.tag # "Io"
        /\ (wl[t].pc = "done" /\ wl[t].calls = 2 /\ wl[t].rc2 = 0)
           => wl[t].ret = NoRecord

C10_Witness ==
    \E t \in Threads :
        /\ wl[t].pc = "done" /\ wl[t].calls = 2 /\ wl[t].rc2 = 0
        /\ lastError[t] = ERROR_INSUFFICIENT_BUFFER
        /\ wl[t].ret = NoRecord

=============================================================================
